---------------------------- MODULE Spec2Model ----------------------------
(***************************************************************************)
(* The adaptive task pool of enhanced_autonomous_team.py: one unbounded    *)
(* FIFO queue.Queue drained by worker threads, a Scaler                    *)
(* (optimize_performance) run by the hourly optimization thread and, on a  *)
(* low success rate, by the monitoring thread, and the shared              *)
(* performance_metrics dictionary that all of them update without a lock.  *)
(*                                                                         *)
(* Granularity.  queue.Queue.get/put/qsize/task_done and list.append/pop   *)
(* are atomic (the queue's own mutex, the interpreter lock).  Every read   *)
(* of shared state is a step of its own, so a thread can act on a stale    *)
(* value.  `metrics[k] += 1` is a read followed by a write with no lock    *)
(* around the pair.  A step that touches no shared state (running a stub   *)
(* handler, a local comparison) is merged with the shared access that      *)
(* precedes it.                                                            *)
(*                                                                         *)
(* Thread names.  The program never reads which thread a handle denotes:   *)
(* it takes len() of the list, pops its last element, iterates over it to  *)
(* count, and joins with a timeout.  The worker threads are therefore kept *)
(* as a bag of local states; a thread carries a name (1, 2, ...) only in   *)
(* the specifications that ask which handle denotes which worker, and the  *)
(* name 0 elsewhere, where workers in the same local state are             *)
(* interchangeable.                                                        *)
(*                                                                         *)
(* Beside the pool.  GitHubManager.push_changes, the window bookkeeping of *)
(* AutonomousDevTeam and of the launcher's EnhancedAutonomousTeam, and     *)
(* TeamMonitor._should_alert are sequential code: each call is one action, *)
(* its outcome decided by the inputs and by the command that fails, if     *)
(* any.  Each has a variable and a specification of its own, and the       *)
(* pool's actions leave those variables alone.                             *)
(***************************************************************************)
EXTENDS Integers, Sequences, FiniteSets, Bags, TLC

VARIABLES
    task_queue,          \* self.task_queue: items in FIFO order, oldest first
    unfinished_tasks,    \* queue.Queue's count behind task_done()/join()
    worker_threads,      \* self.worker_threads: handles (thread names), in append order
    threads,             \* bag of the worker threads ever started: pc, outcome of the task in
                         \* hand (result, push), value read for `+= 1`, name
    performance_metrics, \* self.performance_metrics
    github_metrics,      \* GitHubManager.performance_metrics (the push counters)
    scaler,              \* per calling thread: position and locals inside optimize_performance
    monitor,             \* the monitoring thread: position and locals inside analyze_performance
    main,                \* the main thread: position inside start() / cleanup()
    enqueued,            \* history: number of add_task calls so far (the next task id is enqueued+1)
    executed,            \* history: executed[id] = number of times task id ran through execute_task
    calls,               \* history: optimize_performance invocations begun, per calling thread
    github_manager,      \* GitHubManager: its token and the last push_changes call
    dev_team,            \* AutonomousDevTeam (autonomous_dev_setup.py) and its tmux session
    launcher,            \* EnhancedAutonomousTeam of launch_autonomous_team.py and its tmux session
    team_monitor         \* TeamMonitor (enhanced_monitor.py): alert_cooldown and the clock

pool == <<task_queue, unfinished_tasks, worker_threads, threads, performance_metrics,
          scaler, monitor, main, enqueued, executed, calls>>

beside == <<github_manager, dev_team, launcher, team_monitor>>

vars == <<pool, github_metrics, beside>>

-----------------------------------------------------------------------------
(* Bounds of the model. *)

MaxTasks == 3
MaxThreads == 4
MaxCycles == 2
MaxMonitorRuns == 1

-----------------------------------------------------------------------------
(* Items of the queue. *)

\* The stop sentinel: None.
StopSignal == [id |-> 0, type |-> "None"]

\* An item that is not a dict: execute_task's task.get('type') raises AttributeError.
NonDict == "non_dict"

\* The task types execute_task routes to a handler.
HandledTypes == {"code_review", "testing", "deployment", "github_sync", "monitoring", "development"}

\* The types the producers of the model enqueue: the sync handler's, a type with no
\* handler, and an item whose execution raises.
ProducedTypes == {"github_sync", "refactor", NonDict}

\* Task types that execute_task's if/elif chain matches no branch for (the last
\* stands for a dict without a 'type' key: task.get('type') is None).
UnhandledTypes == {"refactor", "documentation", "no_type"}

IsTask(item) == item # StopSignal

Min(a, b) == IF a < b THEN a ELSE b
Max(a, b) == IF a > b THEN a ELSE b

-----------------------------------------------------------------------------
(* queue.Queue *)

\* queue.Queue(): maxsize 0, which queue.Queue reads as "no limit".
QueueMaxsize == 0

\* A queue that would hold at most 2 items: C13 fails with it.
QueueFullAtTwo(q) == Len(q) >= 2

\* Queue.full(): put() blocks while it holds.
QueueFull(q) == QueueMaxsize > 0 /\ Len(q) >= QueueMaxsize

QueuePut(q, item) == Append(q, item)
\* A get() that would hand out the newest item: C12 fails with it.
QueueFrontNewest(q) == q[Len(q)]
QueueFront(q) == Head(q)
\* A get() that would hand the item out and leave it in the queue: C1 fails with it.
QueueAfterGetLeavesItem(q) == q
QueueAfterGet(q) == Tail(q)
qsize == Len(task_queue)

-----------------------------------------------------------------------------
(* Initial state: after EnhancedAutonomousTeam.__init__ *)

\* The threads that call optimize_performance: start_optimization's loop and,
\* through analyze_performance, start_monitoring's loop.
Callers == {"optimizer", "monitor"}

IdleScaler == [pc |-> "idle", queue_size |-> 0, current_workers |-> 0, n |-> 0,
               thread |-> 0, tmp |-> 0, added |-> 0]
IdleMonitor == [pc |-> "unstarted", completed |-> 0, total |-> 0, runs |-> 0]

\* A constructor that would count the construction as a first optimization
\* cycle: C27 fails with it.
InitialMetricsCountsCycle == [tasks_completed |-> 0, tasks_failed |-> 0, optimization_cycles |-> 1]

\* self.performance_metrics as __init__ builds it.
InitialMetrics == [tasks_completed |-> 0, tasks_failed |-> 0, optimization_cycles |-> 0]

\* GitHubManager.performance_metrics as __init__ builds it (the push counters).
NoPushes == [successful_pushes |-> 0, failed_pushes |-> 0]

\* No push_changes call yet.
NoCall == [outcome |-> "none", failed_at |-> "none", error |-> "none", before |-> NoPushes]

\* GitHubManager.__init__: the token, and history of the push_changes calls
\* (their number and the last one's course).
NewGitHubManager(token) == [token |-> token, calls |-> 0, last |-> NoCall]

\* AutonomousDevTeam.__init__: no project; windows is the tmux session (the
\* windows' names in index order, index 0 first), not yet created.
NewDevTeam == [projects |-> <<>>, windows |-> <<>>, pc |-> "new"]

\* launch_autonomous_team.EnhancedAutonomousTeam.__init__
NewLauncher == [projects |-> <<>>, active_windows |-> 0, windows |-> <<>>, pc |-> "new"]

\* TeamMonitor.__init__: alert_cooldown is empty; calls, alerts and last are
\* history (the number of _should_alert calls, those that returned True with
\* their time, oldest first, and the last call's key and result).
NewTeamMonitor == [alert_cooldown |-> <<>>, calls |-> 0, alerts |-> <<>>,
                   last |-> [key |-> "none", result |-> FALSE, first |-> FALSE]]

\* The objects beside the pool, after their construction.  The pool's launcher
\* refuses to start without GITHUB_TOKEN, so the pool's manager has a token.
Beside ==
    /\ github_manager = NewGitHubManager(TRUE)
    /\ dev_team = NewDevTeam
    /\ launcher = NewLauncher
    /\ team_monitor = NewTeamMonitor

\* The pool after EnhancedAutonomousTeam.__init__
InitPool ==
    /\ task_queue = <<>>
    /\ unfinished_tasks = 0
    /\ worker_threads = <<>>
    /\ threads = EmptyBag
    /\ performance_metrics = InitialMetrics
    /\ github_metrics = NoPushes
    /\ scaler = [c \in Callers |-> IdleScaler]
    /\ monitor = IdleMonitor
    /\ main = [pc |-> "new", i |-> 0, thread |-> 0]
    /\ enqueued = 0
    /\ executed = <<>>
    /\ calls = [c \in Callers |-> 0]

Init ==
    /\ InitPool
    /\ Beside

-----------------------------------------------------------------------------
(* add_task *)

AddTask(type, maxTasks) ==
    /\ enqueued < maxTasks
    /\ ~QueueFull(task_queue)
    /\ task_queue' = QueuePut(task_queue, [id |-> enqueued + 1, type |-> type])
    /\ unfinished_tasks' = unfinished_tasks + 1
    /\ enqueued' = enqueued + 1
    /\ executed' = Append(executed, 0)
    /\ UNCHANGED <<worker_threads, threads, performance_metrics, github_metrics,
                   scaler, monitor, main, calls, beside>>

-----------------------------------------------------------------------------
(* The worker loop of add_worker *)

\* A worker thread that waits in self.task_queue.get().
NewThread(id) == [pc |-> "idle", result |-> "none", push |-> "none", tmp |-> 0, id |-> id]

\* The bag ts with one thread in local state `from` now in local state `to`.
Step(ts, from, to) == (ts (-) SetToBag({from})) (+) SetToBag({to})

\* Number of threads of the bag ts whose pc is in pcs.
CountPc(ts, pcs) ==
    BagCardinality([t \in {x \in BagToSet(ts) : x.pc \in pcs} |-> ts[t]])

\* sync_with_github: what reaches execute_task's caller when push_changes raises.
\* The handler's own try/except prints the error and returns.
SyncOnPushFailure == "ok"

\* A dispatcher that would raise on a type it has no handler for: C14 fails with it.
ExecuteTaskStrict(item) ==
    IF item.type \notin HandledTypes THEN {[result |-> "raise", push |-> "none"]}
    ELSE IF item.type = "github_sync"
         THEN {[result |-> "ok", push |-> "pushed"],
               [result |-> SyncOnPushFailure, push |-> "failed"],
               [result |-> "ok", push |-> "none"]}
    ELSE {[result |-> "ok", push |-> "none"]}

\* The possible outcomes of execute_task(item): result is "ok" (it returned) or
\* "raise", push is what push_changes did ("none": it was not called, as when
\* github_manager is None).
ExecuteTask(item) ==
    IF item.type = NonDict THEN {[result |-> "raise", push |-> "none"]}
    ELSE IF item.type = "github_sync"
         THEN {[result |-> "ok", push |-> "pushed"],
               [result |-> SyncOnPushFailure, push |-> "failed"],
               [result |-> "ok", push |-> "none"]}
    ELSE {[result |-> "ok", push |-> "none"]}

\* A worker loop without the try/except, which a raising task would end: C6
\* fails with it.
WorkerAfterExecuteUncaught(result) == IF result = "raise" THEN "stopped" ELSE "running"

\* Where the worker is once execute_task has ended with `result`: inside its
\* try/except, which catches Exception, about to count the outcome.
WorkerAfterExecute(result) == "running"

\* A worker that would ignore the sentinel and go back to get(): C15 fails with it.
WorkerAfterStopSignalContinues == "idle"

\* if task is None: break.  The loop is left and the thread function returns.
WorkerAfterStopSignal == "stopped"

\* A worker that would put a task whose execution raised back into the queue:
\* C24 fails with it.
QueueAfterExecuteRetries(q, item, result) == IF result = "raise" THEN QueuePut(q, item) ELSE q

\* The queue once execute_task(item) has ended with `result`: neither the try
\* body nor the except clause (a count and a print) puts anything.
QueueAfterExecute(q, item, result) == q

\* The counter the worker's try/except increments when execute_task ended with
\* `result`.
WorkerCounter(result) == IF result = "ok" THEN "tasks_completed" ELSE "tasks_failed"

\* task = self.task_queue.get(); if task is None: break; self.execute_task(task).
\* The handler runs on the worker's own data; only its end is visible to the
\* other threads, so it is one step with the dequeue, and the worker is Running
\* from then until it has counted the outcome.
WorkerGet(t) ==
    /\ t.pc = "idle"
    /\ task_queue # <<>>
    /\ LET item == QueueFront(task_queue)
       IN  IF IsTask(item)
              THEN \E out \in ExecuteTask(item) :
                     /\ task_queue' = QueueAfterExecute(QueueAfterGet(task_queue), item, out.result)
                     /\ threads' = Step(threads, t,
                                       [t EXCEPT !.pc = WorkerAfterExecute(out.result),
                                                 !.result = out.result,
                                                 !.push = out.push])
                     /\ github_metrics' =
                           CASE out.push = "pushed" ->
                                  [github_metrics EXCEPT !.successful_pushes = @ + 1]
                             [] out.push = "failed" ->
                                  [github_metrics EXCEPT !.failed_pushes = @ + 1]
                             [] OTHER -> github_metrics
                     /\ executed' = [executed EXCEPT ![item.id] = @ + 1]
              ELSE /\ task_queue' = QueueAfterGet(task_queue)
                   /\ threads' = Step(threads, t, [t EXCEPT !.pc = WorkerAfterStopSignal])
                   /\ UNCHANGED <<github_metrics, executed>>
    /\ UNCHANGED <<unfinished_tasks, worker_threads, performance_metrics,
                   scaler, monitor, main, enqueued, calls, beside>>

\* self.performance_metrics[...] += 1: the read
WorkerRead(t) ==
    /\ t.pc = "running"
    /\ threads' = Step(threads, t, [t EXCEPT !.pc = "counting",
                                             !.tmp = performance_metrics[WorkerCounter(t.result)]])
    /\ UNCHANGED <<task_queue, unfinished_tasks, worker_threads, performance_metrics,
                   github_metrics, scaler, monitor, main, enqueued, executed, calls, beside>>

\* ... the write, then finally: self.task_queue.task_done(), and back to get().
WorkerWrite(t) ==
    /\ t.pc = "counting"
    /\ performance_metrics' =
          [performance_metrics EXCEPT ![WorkerCounter(t.result)] = t.tmp + 1]
    /\ unfinished_tasks' = unfinished_tasks - 1
    /\ threads' = Step(threads, t, NewThread(t.id))
    /\ UNCHANGED <<task_queue, worker_threads, github_metrics, scaler, monitor, main,
                   enqueued, executed, calls, beside>>

Worker(t) == WorkerGet(t) \/ WorkerRead(t) \/ WorkerWrite(t)

-----------------------------------------------------------------------------
(* add_worker, as called by start(), by scale_up and from outside *)

\* The name of the next thread: its number, or 0 where threads are nameless.
ThreadName(named) == IF named THEN BagCardinality(threads) + 1 ELSE 0

\* thread.start(): the new worker runs from here on, its handle not yet recorded.
StartThread(ts, id) == ts (+) SetToBag({NewThread(id)})

\* self.worker_threads.append(thread)
RecordHandle(handles, thread) == Append(handles, thread)

-----------------------------------------------------------------------------
(* The Scaler: optimize_performance, scale_up, scale_down.  c names the calling
   thread: "optimizer" (start_optimization's loop) or "monitor"
   (analyze_performance). *)

\* A scale_up without the cap of 5: C4 fails with it.
ScaleUpCountUncapped(q) == q

\* min(5, self.task_queue.qsize())
ScaleUpCount(q) == Min(5, q)

\* len(self.worker_threads) - max(1, self.task_queue.qsize())
ScaleDownExcess(w, q) == w - Max(1, q)

\* A rule that would already scale up at q = 2w: C19 fails with it.
ScalerDecisionEager(q, w) ==
    IF q >= w * 2 THEN "up" ELSE IF 2 * q < w THEN "down" ELSE "none"

\* A rule that would scale up only a pool that still has workers: C28 fails
\* with it.
ScalerDecisionNeedsWorker(q, w) ==
    IF w > 0 /\ q > w * 2 THEN "up" ELSE IF 2 * q < w THEN "down" ELSE "none"

\* if queue_size > current_workers * 2 ... elif queue_size < current_workers / 2
\* (true division: q < w/2 iff 2q < w)
ScalerDecision(q, w) ==
    IF q > w * 2 THEN "up" ELSE IF 2 * q < w THEN "down" ELSE "none"

\* The record of a caller that enters optimize_performance.
EnterOptimize == [IdleScaler EXCEPT !.pc = "qsize"]

\* The hourly thread's loop calls optimize_performance.
OptimizerBegin(maxCycles) ==
    /\ main.pc \in {"running", "cleanup", "cleaned"}
    /\ scaler["optimizer"].pc = "idle"
    /\ calls["optimizer"] < maxCycles
    /\ scaler' = [scaler EXCEPT !["optimizer"] = EnterOptimize]
    /\ calls' = [calls EXCEPT !["optimizer"] = @ + 1]
    /\ UNCHANGED <<task_queue, unfinished_tasks, worker_threads, threads,
                   performance_metrics, github_metrics, monitor, main, enqueued, executed, beside>>

\* The same loop with its passes not counted in the history: while True has
\* no last pass.
OptimizerLoop ==
    /\ main.pc = "running"
    /\ scaler["optimizer"].pc = "idle"
    /\ scaler' = [scaler EXCEPT !["optimizer"] = EnterOptimize]
    /\ UNCHANGED <<task_queue, unfinished_tasks, worker_threads, threads,
                   performance_metrics, github_metrics, monitor, main, enqueued,
                   executed, calls, beside>>

\* queue_size = self.task_queue.qsize()
ScalerReadQueueSize(c) ==
    /\ scaler[c].pc = "qsize"
    /\ scaler' = [scaler EXCEPT ![c].pc = "len", ![c].queue_size = qsize]
    /\ UNCHANGED <<task_queue, unfinished_tasks, worker_threads, threads,
                   performance_metrics, github_metrics, monitor, main, enqueued,
                   executed, calls, beside>>

\* current_workers = len(self.worker_threads), and the comparison that follows.
ScalerReadWorkers(c) ==
    /\ scaler[c].pc = "len"
    /\ LET w == Len(worker_threads)
           d == ScalerDecision(scaler[c].queue_size, w)
       IN  scaler' = [scaler EXCEPT
                         ![c].queue_size = IF d = "none" THEN 0 ELSE @,
                         ![c].current_workers = IF d = "none" THEN 0 ELSE w,
                         ![c].pc = CASE d = "up" -> "up_qsize"
                                     [] d = "down" -> "down_len"
                                     [] OTHER -> "cycles_read"]
    /\ UNCHANGED <<task_queue, unfinished_tasks, worker_threads, threads,
                   performance_metrics, github_metrics, monitor, main, enqueued,
                   executed, calls, beside>>

\* scale_up: new_workers = min(5, self.task_queue.qsize())
ScaleUpRead(c) ==
    /\ scaler[c].pc = "up_qsize"
    /\ LET k == ScaleUpCount(qsize)
       IN  scaler' = [scaler EXCEPT ![c].n = k,
                                    ![c].queue_size = 0,
                                    ![c].current_workers = 0,
                                    ![c].pc = IF k > 0 THEN "up_start" ELSE "cycles_read"]
    /\ UNCHANGED <<task_queue, unfinished_tasks, worker_threads, threads,
                   performance_metrics, github_metrics, monitor, main, enqueued,
                   executed, calls, beside>>

\* add_worker inside scale_up's loop: thread.start()
ScaleUpStart(c, maxThreads, named) ==
    /\ scaler[c].pc = "up_start"
    /\ BagCardinality(threads) < maxThreads
    /\ threads' = StartThread(threads, ThreadName(named))
    /\ scaler' = [scaler EXCEPT ![c].pc = "up_append",
                                ![c].thread = ThreadName(named),
                                ![c].added = @ + 1]
    /\ UNCHANGED <<task_queue, unfinished_tasks, worker_threads, performance_metrics,
                   github_metrics, monitor, main, enqueued, executed, calls, beside>>

\* add_worker inside scale_up's loop: self.worker_threads.append(thread)
ScaleUpAppend(c) ==
    /\ scaler[c].pc = "up_append"
    /\ worker_threads' = RecordHandle(worker_threads, scaler[c].thread)
    /\ scaler' = [scaler EXCEPT ![c].n = @ - 1,
                                ![c].thread = 0,
                                ![c].pc = IF scaler[c].n > 1 THEN "up_start" ELSE "cycles_read"]
    /\ UNCHANGED <<task_queue, unfinished_tasks, threads, performance_metrics,
                   github_metrics, monitor, main, enqueued, executed, calls, beside>>

\* scale_down: the left operand of excess, len(self.worker_threads)
ScaleDownReadWorkers(c) ==
    /\ scaler[c].pc = "down_len"
    /\ scaler' = [scaler EXCEPT ![c].tmp = Len(worker_threads), ![c].pc = "down_qsize"]
    /\ UNCHANGED <<task_queue, unfinished_tasks, worker_threads, threads,
                   performance_metrics, github_metrics, monitor, main, enqueued,
                   executed, calls, beside>>

\* scale_down: excess = ... - max(1, self.task_queue.qsize()); if excess > 0
ScaleDownReadQueue(c) ==
    /\ scaler[c].pc = "down_qsize"
    /\ LET excess == ScaleDownExcess(scaler[c].tmp, qsize)
       IN  scaler' = [scaler EXCEPT
                         ![c].tmp = 0,
                         ![c].queue_size = 0,
                         ![c].current_workers = 0,
                         ![c].n = IF excess > 0 THEN excess ELSE 0,
                         ![c].pc = IF excess > 0 THEN "down_pop" ELSE "cycles_read"]
    /\ UNCHANGED <<task_queue, unfinished_tasks, worker_threads, threads,
                   performance_metrics, github_metrics, monitor, main, enqueued,
                   executed, calls, beside>>

\* One pass of scale_down's loop: if self.worker_threads: worker = ....pop()
ScaleDownPop(c) ==
    /\ scaler[c].pc = "down_pop"
    /\ IF worker_threads # <<>>
       THEN /\ worker_threads' = SubSeq(worker_threads, 1, Len(worker_threads) - 1)
            /\ scaler' = [scaler EXCEPT ![c].pc = "down_put"]
       ELSE /\ worker_threads' = worker_threads
            /\ scaler' = [scaler EXCEPT
                             ![c].n = @ - 1,
                             ![c].pc = IF scaler[c].n > 1 THEN "down_pop" ELSE "cycles_read"]
    /\ UNCHANGED <<task_queue, unfinished_tasks, threads, performance_metrics,
                   github_metrics, monitor, main, enqueued, executed, calls, beside>>

\* ... self.task_queue.put(None)
ScaleDownPut(c) ==
    /\ scaler[c].pc = "down_put"
    /\ ~QueueFull(task_queue)
    /\ task_queue' = QueuePut(task_queue, StopSignal)
    /\ unfinished_tasks' = unfinished_tasks + 1
    /\ scaler' = [scaler EXCEPT
                     ![c].n = @ - 1,
                     ![c].pc = IF scaler[c].n > 1 THEN "down_pop" ELSE "cycles_read"]
    /\ UNCHANGED <<worker_threads, threads, performance_metrics, github_metrics,
                   monitor, main, enqueued, executed, calls, beside>>

\* self.task_queue.put(None) with the queue's unfinished count kept up to
\* maxCount.  Nothing in the program reads the count (join() is never called).
ScaleDownPutUpTo(c, maxCount) ==
    /\ scaler[c].pc = "down_put"
    /\ ~QueueFull(task_queue)
    /\ task_queue' = QueuePut(task_queue, StopSignal)
    /\ unfinished_tasks' = Min(unfinished_tasks + 1, maxCount)
    /\ scaler' = [scaler EXCEPT
                     ![c].n = @ - 1,
                     ![c].pc = IF scaler[c].n > 1 THEN "down_pop" ELSE "cycles_read"]
    /\ UNCHANGED <<worker_threads, threads, performance_metrics, github_metrics,
                   monitor, main, enqueued, executed, calls, beside>>

\* self.performance_metrics['optimization_cycles'] += 1: the read
ScalerCyclesRead(c) ==
    /\ scaler[c].pc = "cycles_read"
    /\ scaler' = [scaler EXCEPT ![c].pc = "cycles_write",
                                ![c].tmp = performance_metrics.optimization_cycles]
    /\ UNCHANGED <<task_queue, unfinished_tasks, worker_threads, threads,
                   performance_metrics, github_metrics, monitor, main, enqueued,
                   executed, calls, beside>>

\* The value `optimization_cycles += 1` stores, having read `read`.
CyclesIncrement(read) == read + 1

\* ... the write, and the return to the caller.
ScalerCyclesWrite(c) ==
    /\ scaler[c].pc = "cycles_write"
    /\ performance_metrics' =
          [performance_metrics EXCEPT !.optimization_cycles = CyclesIncrement(scaler[c].tmp)]
    /\ scaler' = [scaler EXCEPT ![c] = IdleScaler]
    /\ monitor' = IF c = "monitor" THEN [monitor EXCEPT !.pc = "idle"] ELSE monitor
    /\ UNCHANGED <<task_queue, unfinished_tasks, worker_threads, threads,
                   github_metrics, main, enqueued, executed, calls, beside>>

\* The same write with optimization_cycles kept up to maxCount.  The program
\* reads the counter only to increment it.
ScalerCyclesWriteUpTo(c, maxCount) ==
    /\ scaler[c].pc = "cycles_write"
    /\ performance_metrics' =
          [performance_metrics EXCEPT
              !.optimization_cycles = Min(CyclesIncrement(scaler[c].tmp), maxCount)]
    /\ scaler' = [scaler EXCEPT ![c] = IdleScaler]
    /\ monitor' = IF c = "monitor" THEN [monitor EXCEPT !.pc = "idle"] ELSE monitor
    /\ UNCHANGED <<task_queue, unfinished_tasks, worker_threads, threads,
                   github_metrics, main, enqueued, executed, calls, beside>>

Scaler(c, maxThreads, named) ==
    \/ ScalerReadQueueSize(c)
    \/ ScalerReadWorkers(c)
    \/ ScaleUpRead(c)
    \/ ScaleUpStart(c, maxThreads, named)
    \/ ScaleUpAppend(c)
    \/ ScaleDownReadWorkers(c)
    \/ ScaleDownReadQueue(c)
    \/ ScaleDownPop(c)
    \/ ScaleDownPut(c)
    \/ ScalerCyclesRead(c)
    \/ ScalerCyclesWrite(c)

-----------------------------------------------------------------------------
(* The Monitor: analyze_performance, run by start_monitoring's loop *)

\* success_rate = (tasks_completed / total_tasks) * 100; success_rate < 90
BelowTarget(completed, total) == 100 * completed < 90 * total

\* An analyze_performance without the total_tasks == 0 guard: C9 fails with it.
AnalyzeAfterTotalUnguarded(total) == "rate"

\* if total_tasks == 0: return
AnalyzeAfterTotal(total) == IF total = 0 THEN "idle" ELSE "rate"

\* total_tasks = tasks_completed + ...: the left operand is read first.
MonitorReadCompleted(maxRuns) ==
    /\ monitor.pc = "idle"
    /\ monitor.runs < maxRuns
    /\ monitor' = [monitor EXCEPT !.pc = "read_failed",
                                  !.completed = performance_metrics.tasks_completed,
                                  !.runs = @ + 1]
    /\ UNCHANGED <<task_queue, unfinished_tasks, worker_threads, threads,
                   performance_metrics, github_metrics, scaler, main, enqueued,
                   executed, calls, beside>>

\* ... + tasks_failed, and the test of total_tasks.
MonitorReadFailed ==
    /\ monitor.pc = "read_failed"
    /\ LET total == monitor.completed + performance_metrics.tasks_failed
       IN  monitor' = [monitor EXCEPT !.pc = AnalyzeAfterTotal(total),
                                      !.completed = 0,
                                      !.total = IF total = 0 THEN 0 ELSE total]
    /\ UNCHANGED <<task_queue, unfinished_tasks, worker_threads, threads,
                   performance_metrics, github_metrics, scaler, main, enqueued,
                   executed, calls, beside>>

\* The division (tasks_completed read again) and the threshold test.  A zero
\* total_tasks raises ZeroDivisionError, which ends the monitoring thread.
MonitorRate ==
    /\ monitor.pc = "rate"
    /\ IF monitor.total = 0
       THEN /\ monitor' = [monitor EXCEPT !.pc = "crashed"]
            /\ UNCHANGED <<scaler, calls>>
       ELSE IF BelowTarget(performance_metrics.tasks_completed, monitor.total)
       THEN /\ monitor' = [monitor EXCEPT !.pc = "optimizing", !.total = 0]
            /\ scaler' = [scaler EXCEPT !["monitor"] = EnterOptimize]
            /\ calls' = [calls EXCEPT !["monitor"] = @ + 1]
       ELSE /\ monitor' = [monitor EXCEPT !.pc = "idle", !.total = 0]
            /\ UNCHANGED <<scaler, calls>>
    /\ UNCHANGED <<task_queue, unfinished_tasks, worker_threads, threads,
                   performance_metrics, github_metrics, main, enqueued, executed, beside>>

Monitor(maxRuns) ==
    \/ MonitorReadCompleted(maxRuns)
    \/ MonitorReadFailed
    \/ MonitorRate

-----------------------------------------------------------------------------
(* The main thread: start() and cleanup() *)

\* start(): self.add_worker(), thread.start()
StartAddWorker(named) ==
    /\ main.pc = "new"
    /\ threads' = StartThread(threads, ThreadName(named))
    /\ main' = [main EXCEPT !.pc = "start_append", !.thread = ThreadName(named)]
    /\ UNCHANGED <<task_queue, unfinished_tasks, worker_threads, performance_metrics,
                   github_metrics, scaler, monitor, enqueued, executed, calls, beside>>

\* start(): self.add_worker(), self.worker_threads.append(thread)
StartAppend ==
    /\ main.pc = "start_append"
    /\ worker_threads' = RecordHandle(worker_threads, main.thread)
    /\ main' = [main EXCEPT !.pc = "start_monitoring", !.thread = 0]
    /\ UNCHANGED <<task_queue, unfinished_tasks, threads, performance_metrics,
                   github_metrics, scaler, monitor, enqueued, executed, calls, beside>>

\* start(): self.start_monitoring()
StartMonitoring ==
    /\ main.pc = "start_monitoring"
    /\ monitor' = [monitor EXCEPT !.pc = "idle"]
    /\ main' = [main EXCEPT !.pc = "start_optimization"]
    /\ UNCHANGED <<task_queue, unfinished_tasks, worker_threads, threads,
                   performance_metrics, github_metrics, scaler, enqueued, executed, calls, beside>>

\* start(): self.start_optimization(); the main thread then enqueues and sleeps.
StartOptimization ==
    /\ main.pc = "start_optimization"
    /\ main' = [main EXCEPT !.pc = "running"]
    /\ UNCHANGED <<task_queue, unfinished_tasks, worker_threads, threads,
                   performance_metrics, github_metrics, scaler, monitor, enqueued,
                   executed, calls, beside>>

\* KeyboardInterrupt: cleanup() begins.
CleanupBegin ==
    /\ main.pc = "running"
    /\ main' = [main EXCEPT !.pc = "cleanup", !.i = 0]
    /\ UNCHANGED <<task_queue, unfinished_tasks, worker_threads, threads,
                   performance_metrics, github_metrics, scaler, monitor, enqueued,
                   executed, calls, beside>>

\* A cleanup() loop that would stop one pass early: C8 fails with it.
CleanupContinuesOneShort(i, handles) == i + 1 < Len(handles)

\* The list iterator of `for _ in self.worker_threads` holds an index and tests
\* it against the list's current length at each pass.
CleanupContinues(i, handles) == i < Len(handles)

\* for _ in self.worker_threads: self.task_queue.put(None).  The joins that
\* follow have a timeout and change nothing.
CleanupPut ==
    /\ main.pc = "cleanup"
    /\ IF CleanupContinues(main.i, worker_threads)
       THEN /\ ~QueueFull(task_queue)
            /\ task_queue' = QueuePut(task_queue, StopSignal)
            /\ unfinished_tasks' = unfinished_tasks + 1
            /\ main' = [main EXCEPT !.i = @ + 1]
       ELSE /\ main' = [main EXCEPT !.pc = "cleaned", !.i = 0]
            /\ UNCHANGED <<task_queue, unfinished_tasks>>
    /\ UNCHANGED <<worker_threads, threads, performance_metrics, github_metrics,
                   scaler, monitor, enqueued, executed, calls, beside>>

\* A worker thread whose function has returned is gone; the bag forgets it.
ForgetStopped ==
    /\ \E t \in BagToSet(threads) :
          /\ t.pc = "stopped"
          /\ threads' = threads (-) SetToBag({t})
    /\ UNCHANGED <<task_queue, unfinished_tasks, worker_threads, performance_metrics,
                   github_metrics, scaler, monitor, main, enqueued, executed, calls, beside>>

\* A thread the interpreter has abandoned at exit.
KilledThread(id) == [NewThread(id) EXCEPT !.pc = "killed"]

\* The bag ts once the process has exited: the threads that had returned stay
\* as they are, every other one (daemon=True) is abandoned where it stands.
KillDaemons(ts) ==
    LET gone == {t \in BagToSet(ts) : t.pc = "stopped"}
        cut == BagToSet(ts) \ gone
    IN  [t \in gone |-> ts[t]] (+)
        [k \in {KilledThread(t.id) : t \in cut} |->
            BagCardinality([t \in {x \in cut : x.id = k.id} |-> ts[t]])]

\* start(): after cleanup() has returned (each join waits at most 1 second,
\* whether or not the worker has finished), sys.exit(0).  The workers, the
\* monitoring thread and the optimization thread are daemon threads: the
\* interpreter exits without waiting for them.
ProcessExit ==
    /\ main.pc = "cleaned"
    /\ main' = [main EXCEPT !.pc = "exited"]
    /\ threads' = KillDaemons(threads)
    /\ scaler' = [c \in Callers |-> [IdleScaler EXCEPT !.pc = "killed"]]
    /\ monitor' = [IdleMonitor EXCEPT !.pc = "killed", !.runs = monitor.runs]
    /\ UNCHANGED <<task_queue, unfinished_tasks, worker_threads, performance_metrics,
                   github_metrics, enqueued, executed, calls, beside>>

StartUp(named) ==
    \/ StartAddWorker(named)
    \/ StartAppend
    \/ StartMonitoring
    \/ StartOptimization

Cleanup ==
    \/ CleanupBegin
    \/ CleanupPut

-----------------------------------------------------------------------------
(* The running pool, from construction: producers, start(), the workers, the
   hourly Scaler thread and the Monitor thread. *)

Next ==
    \/ \E type \in ProducedTypes : AddTask(type, MaxTasks)
    \/ \E t \in BagToSet(threads) : Worker(t)
    \/ OptimizerBegin(MaxCycles)
    \/ \E c \in Callers : Scaler(c, MaxThreads, FALSE)
    \/ Monitor(MaxMonitorRuns)
    \/ StartUp(FALSE)

Spec == Init /\ [][Next]_vars

-----------------------------------------------------------------------------
(* A burst: the pool has started, its one worker is idle and BurstTasks
   development tasks are in the queue (ten add_development_task calls made
   before any other thread ran).  Every task of the burst succeeds, so the
   success rate is 100 and the Monitor never calls the Scaler: the threads that
   act are the workers and the hourly Scaler thread. *)

BurstTasks == 10
BurstThreads == 7
BurstCycles == 2

BurstInit ==
    /\ task_queue = [i \in 1..BurstTasks |-> [id |-> i, type |-> "development"]]
    /\ unfinished_tasks = BurstTasks
    /\ worker_threads = <<0>>
    /\ threads = SetToBag({NewThread(0)})
    /\ performance_metrics = [tasks_completed |-> 0, tasks_failed |-> 0, optimization_cycles |-> 0]
    /\ github_metrics = [successful_pushes |-> 0, failed_pushes |-> 0]
    /\ Beside
    /\ scaler = [c \in Callers |-> IdleScaler]
    /\ monitor = [IdleMonitor EXCEPT !.pc = "idle"]
    /\ main = [pc |-> "running", i |-> 0, thread |-> 0]
    /\ enqueued = BurstTasks
    /\ executed = [i \in 1..BurstTasks |-> 0]
    /\ calls = [c \in Callers |-> 0]

BurstNext ==
    \/ \E t \in BagToSet(threads) : Worker(t)
    \/ OptimizerBegin(BurstCycles)
    \/ Scaler("optimizer", BurstThreads, FALSE)

BurstSpec == BurstInit /\ [][BurstNext]_vars

-----------------------------------------------------------------------------
(* Shutdown: cleanup() on a pool that the Scaler leaves alone.  The pool is
   the one start() built (one worker) or the one the Scaler's first scale-up
   built from a backlog of b > 2 tasks (1 + min(5, b) workers), its workers
   idle and the backlog still queued.  The OS schedules every runnable thread
   and every handler returns: weak fairness of the workers' steps and of
   cleanup()'s loop. *)

MaxBacklog == 3

ShutdownInit ==
    \E b \in 0..MaxBacklog, scaled \in BOOLEAN :
      \E types \in [1..b -> ProducedTypes] :
        LET up == scaled /\ b > 2
            n == IF up THEN 1 + ScaleUpCount(b) ELSE 1
            cycles == IF up THEN 1 ELSE 0
        IN  /\ task_queue = [i \in 1..b |-> [id |-> i, type |-> types[i]]]
            /\ unfinished_tasks = b
            /\ worker_threads = [i \in 1..n |-> 0]
            /\ threads = [t \in {NewThread(0)} |-> n]
            /\ performance_metrics = [tasks_completed |-> 0, tasks_failed |-> 0,
                                      optimization_cycles |-> cycles]
            /\ github_metrics = [successful_pushes |-> 0, failed_pushes |-> 0]
            /\ Beside
            /\ scaler = [c \in Callers |-> IdleScaler]
            /\ monitor = [IdleMonitor EXCEPT !.pc = "idle"]
            /\ main = [pc |-> "running", i |-> 0, thread |-> 0]
            /\ enqueued = b
            /\ executed = [i \in 1..b |-> 0]
            /\ calls = [c \in Callers |-> IF c = "optimizer" THEN cycles ELSE 0]

ShutdownNext ==
    \/ \E type \in ProducedTypes : AddTask(type, MaxBacklog)
    \/ \E t \in BagToSet(threads) : Worker(t)
    \/ Cleanup

ShutdownSpec ==
    /\ ShutdownInit
    /\ [][ShutdownNext]_vars
    /\ WF_vars(\E t \in BagToSet(threads) : Worker(t))
    /\ WF_vars(CleanupPut)

-----------------------------------------------------------------------------
(* Shutdown beside the Scaler: cleanup() on the pools of ShutdownInit while the
   hourly thread, which nothing stops, goes on calling optimize_performance.
   Every thread that can step is scheduled: weak fairness of the workers',
   cleanup()'s and the Scaler's steps. *)

ShutdownCycles == 2
ShutdownThreads == 5

RacingNext ==
    \/ \E t \in BagToSet(threads) : Worker(t)
    \/ Cleanup
    \/ OptimizerBegin(ShutdownCycles)
    \/ Scaler("optimizer", ShutdownThreads, FALSE)

RacingSpec ==
    /\ ShutdownInit
    /\ [][RacingNext]_vars
    /\ WF_vars(\E t \in BagToSet(threads) : Worker(t))
    /\ WF_vars(CleanupPut)
    /\ WF_vars(Scaler("optimizer", ShutdownThreads, FALSE))

-----------------------------------------------------------------------------
(* Shutdown to the end: the pools of ShutdownInit, cleanup() and the exit of
   the process that start() makes follow it. *)

ExitNext ==
    \/ ShutdownNext
    \/ ProcessExit

ExitSpec == ShutdownInit /\ [][ExitNext]_vars

-----------------------------------------------------------------------------
(* One worker on its own: the pool start() built, producers that enqueue tasks
   of types execute_task has no branch for, and no Scaler or Monitor run.
   Nothing but the one worker writes the counters. *)

SoloTasks == 4

SoloInit ==
    /\ task_queue = <<>>
    /\ unfinished_tasks = 0
    /\ worker_threads = <<0>>
    /\ threads = SetToBag({NewThread(0)})
    /\ performance_metrics = [tasks_completed |-> 0, tasks_failed |-> 0, optimization_cycles |-> 0]
    /\ github_metrics = [successful_pushes |-> 0, failed_pushes |-> 0]
    /\ Beside
    /\ scaler = [c \in Callers |-> IdleScaler]
    /\ monitor = [IdleMonitor EXCEPT !.pc = "idle"]
    /\ main = [pc |-> "running", i |-> 0, thread |-> 0]
    /\ enqueued = 0
    /\ executed = <<>>
    /\ calls = [c \in Callers |-> 0]

SoloNext ==
    \/ \E type \in UnhandledTypes : AddTask(type, SoloTasks)
    \/ \E t \in BagToSet(threads) : Worker(t)

SoloSpec == SoloInit /\ [][SoloNext]_vars

-----------------------------------------------------------------------------
(* Which handle denotes which worker: the pool from construction with every
   thread named (1, 2, ... in the order of thread.start()), producers of tasks
   that complete, the workers and the hourly Scaler thread. *)

HandleTasks == 3
HandleThreads == 3
HandleCycles == 2

HandleNext ==
    \/ AddTask("development", HandleTasks)
    \/ \E t \in BagToSet(threads) : Worker(t)
    \/ OptimizerBegin(HandleCycles)
    \/ Scaler("optimizer", HandleThreads, TRUE)
    \/ StartUp(TRUE)

HandleSpec == Init /\ [][HandleNext]_vars

-----------------------------------------------------------------------------
(* The pool for ever: the loops of the optimization thread and of the workers
   have no last pass.  The pool is the one a first scale-up has left (two idle
   workers, three tasks done, one of them failed, so that the Monitor's run
   calls the Scaler); producers add up to LiveTasks tasks in all.  For the
   behaviours to stay within finitely many states, the threads that have
   returned are forgotten and the two counters that grow with every pass and
   that no decision reads (optimization_cycles, the queue's unfinished count)
   are kept up to LiveCount.  Every thread that can step is scheduled and every
   handler and sleep returns: weak fairness of each thread's steps.  The
   producers are under no obligation. *)

LiveTasks == 4
LiveThreads == 3
LiveMonitorRuns == 1
LiveCount == 2

LiveInit ==
    /\ task_queue = <<>>
    /\ unfinished_tasks = 0
    /\ worker_threads = <<0, 0>>
    /\ threads = [t \in {NewThread(0)} |-> 2]
    /\ performance_metrics = [tasks_completed |-> 2, tasks_failed |-> 1, optimization_cycles |-> 1]
    /\ github_metrics = [successful_pushes |-> 0, failed_pushes |-> 0]
    /\ Beside
    /\ scaler = [c \in Callers |-> IdleScaler]
    /\ monitor = [IdleMonitor EXCEPT !.pc = "idle"]
    /\ main = [pc |-> "running", i |-> 0, thread |-> 0]
    /\ enqueued = 3
    /\ executed = <<1, 1, 1>>
    /\ calls = [c \in Callers |-> IF c = "optimizer" THEN 1 ELSE 0]

LiveScaler(c) ==
    \/ ScalerReadQueueSize(c)
    \/ ScalerReadWorkers(c)
    \/ ScaleUpRead(c)
    \/ ScaleUpStart(c, LiveThreads, FALSE)
    \/ ScaleUpAppend(c)
    \/ ScaleDownReadWorkers(c)
    \/ ScaleDownReadQueue(c)
    \/ ScaleDownPop(c)
    \/ ScaleDownPutUpTo(c, LiveCount)
    \/ ScalerCyclesRead(c)
    \/ ScalerCyclesWriteUpTo(c, LiveCount)

LiveNext ==
    \/ AddTask("development", LiveTasks)
    \/ \E t \in BagToSet(threads) : Worker(t)
    \/ OptimizerLoop
    \/ \E c \in Callers : LiveScaler(c)
    \/ Monitor(LiveMonitorRuns)
    \/ ForgetStopped

LiveSpec ==
    /\ LiveInit
    /\ [][LiveNext]_vars
    /\ WF_vars(\E t \in BagToSet(threads) : Worker(t))
    /\ WF_vars(OptimizerLoop)
    /\ \A c \in Callers : WF_vars(LiveScaler(c))
    /\ WF_vars(Monitor(LiveMonitorRuns))
    /\ WF_vars(ForgetStopped)

-----------------------------------------------------------------------------
(* The idle pool: a backlog of IdleBacklog development tasks has made the
   Scaler's first pass add min(5, IdleBacklog) workers to start()'s one, the
   workers have dequeued the whole backlog and are finishing it, and no
   producer enqueues anything more.  The queue holds no Task in any state; the
   hourly Scaler thread goes on evaluating. *)

IdleBacklog == 5
IdleCycles == 3
IdleThreads == 11

\* A worker that has run a development task and has yet to count it.
BusyThread(id) == [NewThread(id) EXCEPT !.pc = "running", !.result = "ok"]

IdleInit ==
    LET n == 1 + ScaleUpCount(IdleBacklog)
    IN  /\ task_queue = <<>>
        /\ unfinished_tasks = IdleBacklog
        /\ worker_threads = [i \in 1..n |-> 0]
        /\ threads = (NewThread(0) :> n - IdleBacklog) @@ (BusyThread(0) :> IdleBacklog)
        /\ performance_metrics = [tasks_completed |-> 0, tasks_failed |-> 0,
                                  optimization_cycles |-> 1]
        /\ github_metrics = [successful_pushes |-> 0, failed_pushes |-> 0]
        /\ Beside
        /\ scaler = [c \in Callers |-> IdleScaler]
        /\ monitor = [IdleMonitor EXCEPT !.pc = "idle"]
        /\ main = [pc |-> "running", i |-> 0, thread |-> 0]
        /\ enqueued = IdleBacklog
        /\ executed = [i \in 1..IdleBacklog |-> 1]
        /\ calls = [c \in Callers |-> IF c = "optimizer" THEN 1 ELSE 0]

IdleNext ==
    \/ \E t \in BagToSet(threads) : Worker(t)
    \/ OptimizerBegin(IdleCycles)
    \/ Scaler("optimizer", IdleThreads, FALSE)

IdleSpec == IdleInit /\ [][IdleNext]_vars

-----------------------------------------------------------------------------
(* GitHubManager.push_changes, one call at a time.

   The call walks through its commands in order; the first one that fails
   ends it.  The inputs are the remote that `git remote get-url origin`
   reports (none, an ssh address, an https address on github.com or an https
   address elsewhere) and the command that exits non-zero, if any. *)

MaxPushes == 3

Remotes == {"none", "ssh", "https_github", "https_other"}

\* The call's steps in the order of the code: os.chdir, the two `git config`
\* calls (with a token), git add, git commit, the rewritten URL and
\* `git remote set-url` (with a token and an https remote), git push.
PushSteps(token, remote) ==
    <<"chdir">>
    \o (IF token THEN <<"config_name", "config_email">> ELSE <<>>)
    \o <<"add", "commit">>
    \o (IF token /\ remote \in {"https_github", "https_other"}
        THEN <<"new_url", "set_url">> ELSE <<>>)
    \o <<"push">>

\* The steps that run git with check=True.
GitSteps == {"config_name", "config_email", "add", "commit", "set_url", "push"}

\* What a failing step raises: os.chdir an OSError, the commands run with
\* check=True a CalledProcessError, remote_url.split('github.com/')[1] an
\* IndexError.
ErrorOf(step) ==
    CASE step = "chdir"   -> "OSError"
      [] step = "new_url" -> "IndexError"
      [] OTHER            -> "CalledProcessError"

\* Whether the step fails: it is the command that exits non-zero (the missing
\* directory for chdir), or it splits an https address without 'github.com/'.
Raises(step, remote, fail) ==
    \/ step = fail
    \/ step = "new_url" /\ remote = "https_other"

\* The steps inside the try block.
InTry(step) == step \in {"add", "commit", "new_url", "set_url", "push"}

\* except subprocess.CalledProcessError
Caught(step) == InTry(step) /\ ErrorOf(step) = "CalledProcessError"

PushChanges(remote, fail, maxPushes) ==
    /\ github_manager.calls < maxPushes
    /\ LET steps == PushSteps(github_manager.token, remote)
           failing == {i \in DOMAIN steps : Raises(steps[i], remote, fail)}
       IN  IF failing = {}
           THEN /\ github_metrics' = [github_metrics EXCEPT !.successful_pushes = @ + 1]
                /\ github_manager' =
                      [github_manager EXCEPT
                         !.calls = @ + 1,
                         !.last = [outcome |-> "returned", failed_at |-> "none",
                                   error |-> "none", before |-> github_metrics]]
           ELSE LET step == steps[CHOOSE i \in failing : \A j \in failing : i <= j]
                IN  /\ github_metrics' =
                          IF Caught(step)
                          THEN [github_metrics EXCEPT !.failed_pushes = @ + 1]
                          ELSE github_metrics
                    /\ github_manager' =
                          [github_manager EXCEPT
                             !.calls = @ + 1,
                             !.last = [outcome |-> "raised", failed_at |-> step,
                                       error |-> ErrorOf(step), before |-> github_metrics]]
    /\ UNCHANGED <<pool, dev_team, launcher, team_monitor>>

\* A manager with or without a token, and nothing else running.
PushInit ==
    /\ InitPool
    /\ github_manager \in {NewGitHubManager(token) : token \in BOOLEAN}
    /\ dev_team = NewDevTeam
    /\ launcher = NewLauncher
    /\ team_monitor = NewTeamMonitor

PushNext ==
    \E remote \in Remotes, fail \in GitSteps \cup {"chdir", "none"} :
        PushChanges(remote, fail, MaxPushes)

PushSpec == PushInit /\ [][PushNext]_vars

-----------------------------------------------------------------------------
(* AutonomousDevTeam (autonomous_dev_setup.py): the orchestrator's session and
   add_project.

   tmux gives a new window the next index of the session, so the session is
   the sequence of the windows' names and the window at index n is
   windows[n + 1].  A tmux command run with check=True that fails raises out
   of the call and, nothing catching it, out of main(). *)

MaxProjects == 3

\* Names add_project is called with: main()'s two sample projects and one more.
ProjectNames == {"WebApp", "MobileAPI", "Docs"}

\* The roles add_project enumerates, in order.
DevRoles == <<"Frontend", "Backend", "DevOps", "QA">>

\* role.lower()
Lower(role) ==
    CASE role = "Frontend" -> "frontend"
      [] role = "Backend"  -> "backend"
      [] role = "DevOps"   -> "devops"
      [] role = "QA"       -> "qa"

\* The window names add_project passes to tmux: f"PM-{project_name}" and
\* f"{role}-{project_name}".
WindowName(role, project) == [role |-> role, project |-> project]
OrchestratorWindow == WindowName("Orchestrator", "none")

\* tmux new-window -t session: the window takes the next index.
NewWindow(windows, name) == Append(windows, name)

\* create_master_orchestrator: tmux new-session (window 0), renamed Orchestrator.
CreateMasterOrchestrator ==
    /\ dev_team.pc = "new"
    /\ dev_team' = [dev_team EXCEPT !.pc = "ready",
                                    !.windows = NewWindow(<<>>, OrchestratorWindow)]
    /\ UNCHANGED <<pool, github_metrics, github_manager, launcher, team_monitor>>

\* Where a call of add_project may fail: at none of its commands (0), at the
\* n-th `tmux new-window` (1 for the PM, 2..5 for the developers), or at a
\* `tmux send-keys` after the project is stored (6).
AddProjectFailures == 0..6

\* window_num = len(self.projects) + 1
WindowNum(projects) == Cardinality(DOMAIN projects) + 1

AddProject(project_name, fail, maxProjects) ==
    /\ dev_team.pc = "ready"
    /\ Len(dev_team.windows) < 1 + maxProjects * (1 + Len(DevRoles))
    /\ LET window_num == WindowNum(dev_team.projects)
           names == <<WindowName("PM", project_name)>>
                    \o [i \in 1..Len(DevRoles) |-> WindowName(DevRoles[i], project_name)]
           created == IF fail \in 1..Len(names) THEN fail - 1 ELSE Len(names)
           dev_windows == [r \in {Lower(DevRoles[i]) : i \in 1..Len(DevRoles)} |->
                             window_num + (CHOOSE i \in 1..Len(DevRoles) : Lower(DevRoles[i]) = r)]
           project == [pm_window |-> window_num, dev_windows |-> dev_windows,
                       window_base |-> window_num]
       IN  dev_team' =
             [dev_team EXCEPT
                !.windows = @ \o SubSeq(names, 1, created),
                !.projects = IF created = Len(names)
                             THEN (project_name :> project) @@ @
                             ELSE @,
                !.pc = IF fail = 0 THEN "ready" ELSE "failed"]
    /\ UNCHANGED <<pool, github_metrics, github_manager, launcher, team_monitor>>

DevNext ==
    \/ CreateMasterOrchestrator
    \/ \E project_name \in ProjectNames, fail \in AddProjectFailures :
          AddProject(project_name, fail, MaxProjects)

DevSpec == Init /\ [][DevNext]_vars

-----------------------------------------------------------------------------
(* The launcher's EnhancedAutonomousTeam (launch_autonomous_team.py):
   create_orchestrator and setup_single_project.

   The tmux session is again the sequence of the windows' names in index
   order.  main() runs the setup inside try/except: a command that fails
   raises out of the call, main() reports "Setup failed" and the process
   exits, so a call that raised is the last one (pc = "failed"). *)

MaxWindows == 9

\* PROJECTS' names.
LauncherProjects == {"AITaskManager", "DemoProject"}

\* The team_roles lists: PROJECTS' two, an empty one, one that names a role
\* twice and one with a role that ROLE_DEFINITIONS lacks.
RoleLists == {<<"frontend", "backend", "devops", "qa">>, <<"backend", "frontend">>,
              <<>>, <<"qa", "qa">>, <<"frontend", "designer">>}

\* ROLE_DEFINITIONS[role]['title'].replace(' ', ''); an unknown role is a KeyError.
KnownRole(role) == role \in {"frontend", "backend", "devops", "qa"}
Title(role) ==
    CASE role = "frontend" -> "FrontendEngineer"
      [] role = "backend"  -> "BackendEngineer"
      [] role = "devops"   -> "DevOpsEngineer"
      [] role = "qa"       -> "QAEngineer"

\* create_orchestrator: tmux new-session, rename-window, the prompt, then
\* active_windows = 1.
CreateOrchestrator(fail) ==
    /\ launcher.pc = "new"
    /\ launcher' =
         CASE fail = "none" ->
                [launcher EXCEPT !.pc = "ready", !.active_windows = 1,
                                 !.windows = NewWindow(<<>>, OrchestratorWindow)]
           [] fail = "send" ->
                [launcher EXCEPT !.pc = "failed",
                                 !.windows = NewWindow(<<>>, OrchestratorWindow)]
           [] OTHER -> [launcher EXCEPT !.pc = "failed"]
    /\ UNCHANGED <<pool, github_metrics, github_manager, dev_team, team_monitor>>

\* Where setup_single_project may fail: nowhere (0), at the n-th
\* `tmux new-window` (1 for the PM, 1 + j for the j-th role), or at a
\* `tmux send-keys` after the project is stored (6).
SetupFailures == 0..6

\* A PM window that would never be accounted for: C33 fails with it.
AccountForPMForgotten(active_windows) == active_windows
\* self.active_windows += 1  # Account for PM window
AccountForPM(active_windows) == active_windows + 1

SetupSingleProject(project_name, team_roles, fail, maxWindows) ==
    /\ launcher.pc = "ready"
    /\ Len(launcher.windows) + 1 + Len(team_roles) <= maxWindows
    /\ LET pm_window_num == launcher.active_windows
           k == Len(team_roles)
           \* the roles whose turn raises: KeyError, or tmux new-window fails
           raising == {j \in 1..k : ~KnownRole(team_roles[j]) \/ fail = 1 + j}
           \* number of roles whose turn is entered, and of developer windows created
           entered == IF raising = {} THEN k ELSE CHOOSE j \in raising : \A i \in raising : j <= i
           created == IF raising = {} THEN k ELSE entered - 1
           dev_windows == [r \in {team_roles[j] : j \in 1..k} |->
                             pm_window_num
                             + (CHOOSE j \in 1..k : /\ team_roles[j] = r
                                                    /\ \A i \in j + 1..k : team_roles[i] # r)]
           project == [pm_window |-> pm_window_num, dev_windows |-> dev_windows,
                       pm_window_num |-> pm_window_num]
       IN  IF fail = 1
           THEN launcher' = [launcher EXCEPT !.pc = "failed"]
           ELSE launcher' =
                  [launcher EXCEPT
                     !.windows = NewWindow(@, WindowName("PM", project_name))
                                 \o [j \in 1..created |->
                                       WindowName(Title(team_roles[j]), project_name)],
                     !.active_windows =
                         IF raising = {} /\ fail # 6
                         THEN AccountForPM(@ + k)
                         ELSE @ + entered,
                     !.projects = IF raising = {} THEN (project_name :> project) @@ @ ELSE @,
                     !.pc = IF raising = {} /\ fail # 6 THEN "ready" ELSE "failed"]
    /\ UNCHANGED <<pool, github_metrics, github_manager, dev_team, team_monitor>>

LauncherNext ==
    \/ \E fail \in {"none", "send", "session"} : CreateOrchestrator(fail)
    \/ \E project_name \in LauncherProjects, team_roles \in RoleLists, fail \in SetupFailures :
          SetupSingleProject(project_name, team_roles, fail, MaxWindows)

LauncherSpec == Init /\ [][LauncherNext]_vars

-----------------------------------------------------------------------------
(* TeamMonitor._should_alert (enhanced_monitor.py, the file that the
   launcher's _create_enhanced_monitor writes from its template).

   Time is the reading of datetime.now() in minutes.  It is naive local time,
   which may also step back, so each call takes any of the readings. *)

MaxAlertCalls == 4

\* timedelta(minutes=30)
CooldownMinutes == 30

\* The alert types of check_team_health and check_git_activity.
AlertTypes == {"inactive", "no_commits"}

\* Window and project names the checks pass as identifier.
Identifiers == {"Orchestrator", "AITaskManager"}

\* Readings of datetime.now(), in minutes.
ClockReadings == {0, 29, 30, 60}

\* key = f"{alert_type}_{identifier}"
Key(alert_type, identifier) == alert_type \o "_" \o identifier

\* key in self.alert_cooldown and now - self.alert_cooldown[key] < timedelta(minutes=30)
InCooldown(alert_cooldown, key, now) ==
    /\ key \in DOMAIN alert_cooldown
    /\ now - alert_cooldown[key] < CooldownMinutes

\* A suppressed call that would store its time too: C34 fails with it.
CooldownAfterAlways(alert_cooldown, key, now, suppressed) == (key :> now) @@ alert_cooldown
\* self.alert_cooldown[key] = now, reached only by a call that is not suppressed
CooldownAfter(alert_cooldown, key, now, suppressed) ==
    IF suppressed THEN alert_cooldown ELSE (key :> now) @@ alert_cooldown

ShouldAlert(alert_type, identifier, now, maxCalls) ==
    /\ team_monitor.calls < maxCalls
    /\ LET key == Key(alert_type, identifier)
           suppressed == InCooldown(team_monitor.alert_cooldown, key, now)
       IN  team_monitor' =
             [team_monitor EXCEPT
                !.calls = @ + 1,
                !.alert_cooldown = CooldownAfter(@, key, now, suppressed),
                !.alerts = IF suppressed
                           THEN @
                           ELSE Append(@, [alert_type |-> alert_type,
                                           identifier |-> identifier, at |-> now]),
                !.last = [key |-> key, result |-> ~suppressed,
                          first |-> key \notin DOMAIN team_monitor.alert_cooldown]]
    /\ UNCHANGED <<pool, github_metrics, github_manager, dev_team, launcher>>

AlertNext ==
    \E alert_type \in AlertTypes, identifier \in Identifiers, now \in ClockReadings :
        ShouldAlert(alert_type, identifier, now, MaxAlertCalls)

AlertSpec == Init /\ [][AlertNext]_vars

-----------------------------------------------------------------------------
(* What the claims speak about. *)

TasksInQueue == Cardinality({i \in 1..Len(task_queue) : IsTask(task_queue[i])})
StopSignalsInQueue == Len(task_queue) - TasksInQueue

\* Workers that have not left their loop.
LiveWorkers == CountPc(threads, {"idle", "running", "counting"})
\* Workers between a dequeue of a Task and the end of its bookkeeping.
RunningWorkers == CountPc(threads, {"running", "counting"})
StoppedWorkers == CountPc(threads, {"stopped"})

\* Number of items of the queue that are task id.
CopiesInQueue(id) == Cardinality({i \in 1..Len(task_queue) : task_queue[i].id = id})

\* Number of threads of the bag ts in local state t.
CopiesOf(t, ts) == IF t \in BagToSet(ts) THEN ts[t] ELSE 0

\* Workers that hold a task whose execution raised and have not yet read the counter.
RaisedWorkers(ts) ==
    BagCardinality([t \in {x \in BagToSet(ts) : x.pc = "running" /\ x.result = "raise"} |-> ts[t]])

ScalersIdle == \A c \in Callers : scaler[c].pc = "idle"

\* The threads that self.worker_threads holds a handle of.
Handles == {worker_threads[i] : i \in 1..Len(worker_threads)}

\* The names of the workers that have not left their loop.
LiveNames == {t.id : t \in {x \in BagToSet(threads) : x.pc \in {"idle", "running", "counting"}}}

-----------------------------------------------------------------------------
(* C1.  No loss, no duplication: every task enqueued so far is either still in
   the queue, exactly once, or has been dequeued and run through execute_task
   exactly once (by the one worker that dequeued it); never both, never
   twice, never neither. *)
C1_NoLossNoDuplication ==
    /\ Len(executed) = enqueued
    /\ \A id \in 1..enqueued : CopiesInQueue(id) + executed[id] = 1

\* All tasks of the run were handed out while several workers held tasks at once.
C1_Witness ==
    /\ enqueued = MaxTasks
    /\ \A id \in 1..enqueued : executed[id] = 1
    /\ RunningWorkers >= 2

(* C2.  Whenever the queue holds no Task and no worker is Running,
   tasks_completed + tasks_failed equals the number of tasks enqueued. *)
C2_EveryTaskCounted ==
    (TasksInQueue = 0 /\ RunningWorkers = 0)
        => performance_metrics.tasks_completed + performance_metrics.tasks_failed = enqueued

(* C3.  Once start() has added the first worker (and cleanup() has not begun),
   at least one worker is live and not destined to stop: the live workers
   outnumber the StopSignals still queued. *)
C3_AlwaysOneLiveWorker ==
    main.pc \in {"start_monitoring", "start_optimization", "running"}
        => LiveWorkers - StopSignalsInQueue >= 1

(* C4.  One call of optimize_performance starts at most 5 worker threads,
   whatever the queue depth. *)
C4_AtMostFivePerEvaluation == \A c \in Callers : scaler[c].added <= 5

\* An evaluation that found more than five items queued has started five workers.
C4_Witness ==
    /\ scaler["optimizer"].added = 5
    /\ scaler["optimizer"].pc = "cycles_read"
    /\ Len(task_queue) > 5

(* C5.  A worker that finishes a github_sync task whose push_changes raised
   adds 1 to tasks_failed, leaves tasks_completed alone and is idle again. *)
C5_PushFailureCountsFailed ==
    [][\A t \in BagToSet(threads) :
          (t.pc = "counting" /\ t.push = "failed" /\ threads' = Step(threads, t, NewThread(t.id)))
              => /\ performance_metrics'.tasks_failed = performance_metrics.tasks_failed + 1
                 /\ performance_metrics'.tasks_completed = performance_metrics.tasks_completed]_vars

(* C6.  A task whose execution raises does not end its worker: the dequeue of
   such an item stops no thread and leaves its worker inside the loop's
   try/except; that worker's next step reads tasks_failed, the one after
   writes tasks_failed (the value read plus one), touches no other counter and
   puts it back in get(), and no other thread is affected. *)
C6_FailureStaysInWorker ==
    [][/\ (task_queue # <<>> /\ Head(task_queue).type = NonDict /\ task_queue' = Tail(task_queue))
            => /\ StoppedWorkers' = StoppedWorkers
               /\ RaisedWorkers(threads') = RaisedWorkers(threads) + 1
       /\ \A t \in BagToSet(threads) :
            (t.result = "raise" /\ CopiesOf(t, threads') < CopiesOf(t, threads))
                => \/ /\ t.pc = "running"
                      /\ threads' = Step(threads, t,
                            [t EXCEPT !.pc = "counting", !.tmp = performance_metrics.tasks_failed])
                      /\ UNCHANGED <<performance_metrics, scaler, monitor, main>>
                   \/ /\ t.pc = "counting"
                      /\ threads' = Step(threads, t, NewThread(t.id))
                      /\ performance_metrics' =
                            [performance_metrics EXCEPT !.tasks_failed = t.tmp + 1]
                      /\ UNCHANGED <<scaler, monitor, main>>]_vars

\* The pool's only worker has failed one task, counted it, and has dequeued and
\* run a later one.
C6_Witness ==
    /\ BagCardinality(threads) = 1
    /\ performance_metrics.tasks_failed = 1
    /\ \E t \in BagToSet(threads) : t.pc = "running" /\ t.result = "ok"

(* C7.  The burst scenario: an evaluation that saw 10 queued items and 1 worker
   sets out to add exactly 5 workers; the evaluation that sees the drained
   queue (0 items) and 6 workers sets out to remove exactly 5. *)
C7_BurstAddsFiveRemovesFive ==
    [][/\ (/\ scaler["optimizer"].pc = "up_qsize"
           /\ scaler["optimizer"].queue_size = BurstTasks
           /\ scaler["optimizer"].current_workers = 1
           /\ scaler'["optimizer"].pc # "up_qsize")
            => scaler'["optimizer"].n = 5
       /\ (/\ scaler["optimizer"].pc = "down_qsize"
           /\ scaler["optimizer"].queue_size = 0
           /\ scaler["optimizer"].current_workers = 6
           /\ scaler'["optimizer"].pc # "down_qsize")
            => scaler'["optimizer"].n = 5]_vars

(* C8.  cleanup() on a pool of N live workers, enqueuing N StopSignals: every
   StopSignal put is in the queue or has stopped exactly one worker, and once
   cleanup() has put them all, eventually no worker is live. *)
C8_StopSignalsStopAll ==
    /\ [](StoppedWorkers + StopSignalsInQueue =
            CASE main.pc = "cleanup" -> main.i
              [] main.pc = "cleaned" -> Len(worker_threads)
              [] OTHER -> 0)
    /\ ((main.pc = "cleaned") ~> (LiveWorkers = 0))

\* Four workers have each taken one of the four StopSignals.
C8_Witness ==
    /\ main.pc = "cleaned"
    /\ Len(worker_threads) = 4
    /\ StoppedWorkers = 4
    /\ LiveWorkers = 0

(* C9.  analyze_performance with tasks_completed = tasks_failed = 0: the run
   returns at `if total_tasks == 0`, divides nothing, does not call
   optimize_performance and changes no shared state; the monitoring thread
   never dies of a ZeroDivisionError. *)
C9_NoDataNoDivision ==
    /\ [](monitor.pc # "crashed")
    /\ [][(/\ monitor.pc = "read_failed"
           /\ monitor.completed = 0
           /\ performance_metrics.tasks_failed = 0
           /\ monitor' # monitor)
            => /\ monitor'.pc = "idle"
               /\ UNCHANGED <<task_queue, unfinished_tasks, worker_threads, threads,
                              performance_metrics, github_metrics, scaler, calls>>]_vars

\* A Monitor run has come and gone while both counters were 0.
C9_Witness ==
    /\ monitor.pc = "idle"
    /\ monitor.runs = 1
    /\ calls["monitor"] = 0
    /\ performance_metrics.tasks_completed = 0
    /\ performance_metrics.tasks_failed = 0
    /\ enqueued > 0

(* C10.  Whenever no call of optimize_performance is in progress,
   optimization_cycles equals the number of calls made, by either thread. *)
C10_CyclesCountCalls ==
    ScalersIdle => performance_metrics.optimization_cycles = calls["optimizer"] + calls["monitor"]

(* C11.  tasks_completed, tasks_failed and optimization_cycles start at 0 and
   no step of any thread makes any of them smaller. *)
C11_CountersNeverDecrease ==
    /\ \A k \in DOMAIN performance_metrics : performance_metrics[k] = 0
    /\ [][\A k \in DOMAIN performance_metrics :
            performance_metrics'[k] >= performance_metrics[k]]_vars

(* C12.  Items leave the queue in the order they entered it: every step that
   changes the queue either appends one item at its end or removes its oldest
   item, and the item a worker receives is that oldest item (a Task, which it
   then executes, or a StopSignal, which stops it); the Tasks waiting in the
   queue are in the order of their add_task calls. *)
C12_FifoOrder ==
    /\ [](\A i, j \in 1..Len(task_queue) :
            (i < j /\ IsTask(task_queue[i]) /\ IsTask(task_queue[j]))
                => task_queue[i].id < task_queue[j].id)
    /\ [][task_queue' # task_queue =>
            \/ \E item \in {StopSignal} \cup
                           {[id |-> enqueued + 1, type |-> ty] : ty \in ProducedTypes} :
                   task_queue' = Append(task_queue, item)
            \/ /\ task_queue # <<>>
               /\ task_queue' = Tail(task_queue)
               /\ IF IsTask(Head(task_queue))
                  THEN /\ executed' = [executed EXCEPT ![Head(task_queue).id] = @ + 1]
                       /\ StoppedWorkers' = StoppedWorkers
                  ELSE /\ executed' = executed
                       /\ StoppedWorkers' = StoppedWorkers + 1]_vars

\* Task 1 has been dequeued while a later Task and a StopSignal wait in the queue.
C12_Witness ==
    /\ enqueued >= 2
    /\ executed[1] = 1
    /\ StopSignalsInQueue >= 1
    /\ TasksInQueue >= 1

(* C13.  Enqueueing never blocks: in every state, whatever the queue depth and
   the number of live workers, add_task can put its Task (a dict of any type,
   as long as the run's budget of tasks is not spent) and a scale_down that is
   about to put a StopSignal can put it. *)
C13_EnqueueAlwaysEnabled ==
    /\ enqueued < MaxTasks =>
          \A type \in ProducedTypes \ {NonDict} : ENABLED AddTask(type, MaxTasks)
    /\ \A c \in Callers : scaler[c].pc = "down_put" => ENABLED ScaleDownPut(c)

\* add_task has been called for every task of the run on a pool with no live
\* worker (start() has not run yet), each call adding to an ever deeper queue.
C13_Witness ==
    /\ Len(task_queue) = MaxTasks
    /\ TasksInQueue = MaxTasks
    /\ LiveWorkers = 0

(* C14.  A Task of a type with no handler runs as a no-op and counts as
   completed: its execution touches nothing but the worker, and the worker's
   bookkeeping adds exactly 1 to tasks_completed and leaves tasks_failed (which
   stays 0 in a run of such tasks) alone; when nothing is in hand,
   tasks_completed is the number of tasks executed. *)
C14_UnhandledCountsCompleted ==
    /\ [](performance_metrics.tasks_failed = 0)
    /\ [](RunningWorkers = 0 =>
            performance_metrics.tasks_completed =
                Cardinality({id \in 1..enqueued : executed[id] = 1}))
    /\ [][/\ (\E id \in 1..enqueued : executed'[id] # executed[id]) =>
                UNCHANGED <<performance_metrics, github_metrics, worker_threads, unfinished_tasks>>
          /\ performance_metrics' # performance_metrics =>
                performance_metrics' = [performance_metrics EXCEPT !.tasks_completed = @ + 1]]_vars

\* Every task of a run of unhandled types has run and been counted.
C14_Witness ==
    /\ enqueued = SoloTasks
    /\ \A id \in 1..enqueued : executed[id] = 1
    /\ RunningWorkers = 0
    /\ performance_metrics.tasks_completed = SoloTasks
    /\ performance_metrics.tasks_failed = 0

(* C15.  The worker that dequeues a StopSignal becomes Stopped in that step,
   which executes no task and changes no counter; and Stopped is terminal: a
   Stopped worker has no further step, no step takes a worker out of Stopped,
   and every dequeue is made by a worker that was idle. *)
C15_StopSignalStopsForGood ==
    /\ [](\A t \in BagToSet(threads) : t.pc = "stopped" => ~ENABLED Worker(t))
    /\ [][/\ (task_queue # <<>> /\ ~IsTask(Head(task_queue)) /\ task_queue' = Tail(task_queue))
              => /\ StoppedWorkers' = StoppedWorkers + 1
                 /\ LiveWorkers' = LiveWorkers - 1
                 /\ UNCHANGED <<executed, performance_metrics, github_metrics>>
          /\ (task_queue # <<>> /\ task_queue' = Tail(task_queue))
              => CountPc(threads', {"idle"}) = CountPc(threads, {"idle"}) - 1
          /\ \A t \in BagToSet(threads) :
                t.pc = "stopped" => CopiesOf(t, threads') >= CopiesOf(t, threads)]_vars

\* A worker has stopped and stays out of the loop while an item waits in the queue.
C15_Witness ==
    /\ StoppedWorkers >= 1
    /\ task_queue # <<>>

(* C16.  A worker leaves Running only by counting the outcome of the Task it
   dequeued (the write of one of the two task counters, with task_done) and is
   live afterwards: no step, of scale_down, of cleanup() or of the shutdown that
   follows it, takes a worker that holds a Task out of its loop. *)
C16_RunningWorkersFinish ==
    [][RunningWorkers' < RunningWorkers =>
          /\ RunningWorkers' = RunningWorkers - 1
          /\ LiveWorkers' = LiveWorkers
          /\ StoppedWorkers' = StoppedWorkers
          /\ \E k \in {"tasks_completed", "tasks_failed"} :
                performance_metrics' =
                    [performance_metrics EXCEPT ![k] = performance_metrics'[k]]
          /\ unfinished_tasks' = unfinished_tasks - 1]_vars

(* C17.  cleanup() leaves exactly one StopSignal per live worker: once it has
   returned and no optimize_performance call is in progress, the StopSignals
   in the queue are as many as the live workers; and from then on eventually
   no worker is live. *)
C17_CleanupStopsEveryWorker ==
    /\ []((main.pc = "cleaned" /\ ScalersIdle) => StopSignalsInQueue = LiveWorkers)
    /\ ((main.pc = "cleaned") ~> (LiveWorkers = 0))

(* C18.  A scale-down evaluation that observed depth q and w workers, q < w/2,
   sets out to remove exactly w - max(1, q) workers, and each pass of its loop
   removes one handle and enqueues one StopSignal. *)
C18_ScaleDownRemovesExcess ==
    [][\A c \in Callers :
          /\ (scaler[c].pc = "down_qsize" /\ scaler'[c].pc # "down_qsize")
                => scaler'[c].n = scaler[c].current_workers - Max(1, scaler[c].queue_size)
          /\ (scaler[c].pc = "down_pop" /\ scaler'[c] # scaler[c])
                => /\ Len(worker_threads') = Len(worker_threads) - 1
                   /\ scaler'[c].pc = "down_put"
          /\ (scaler[c].pc = "down_put" /\ scaler'[c] # scaler[c])
                => task_queue' = Append(task_queue, StopSignal)]_vars

(* C19.  The Scaler acts on the q and w it read: having read both, it enters
   scale_up exactly if q > 2w, scale_down exactly if q <= 2w and q < w/2, and
   otherwise goes straight to the cycle count; scale_up and scale_down are
   entered in no other way; and a step of a caller changes the threads only
   inside scale_up's loop, the handle list only inside the loops of scale_up
   and scale_down, and the queue only by scale_down's put. *)
C19_ScalerFollowsRule ==
    [][\A c \in Callers :
          scaler'[c] # scaler[c] =>
            LET q == scaler[c].queue_size
                w == Len(worker_threads)
                pc == scaler[c].pc
                to == scaler'[c].pc
            IN  /\ pc = "len" =>
                      /\ (to = "up_qsize") = (q > 2 * w)
                      /\ (to = "down_len") = (q <= 2 * w /\ 2 * q < w)
                      /\ (to = "cycles_read") = (w <= 2 * q /\ q <= 2 * w)
                /\ to = "up_qsize" => pc = "len"
                /\ to = "down_len" => pc = "len"
                /\ to \in {"up_start", "up_append"} => pc \in {"up_qsize", "up_start", "up_append"}
                /\ to \in {"down_qsize", "down_pop", "down_put"} =>
                      pc \in {"down_len", "down_qsize", "down_pop", "down_put"}
                /\ pc # "up_start" => threads' = threads
                /\ pc \notin {"up_append", "down_pop"} => worker_threads' = worker_threads
                /\ pc # "down_put" => task_queue' = task_queue]_vars

\* An evaluation has gone straight to the cycle count: 2 tasks wait, 1 idle worker.
C19_Witness ==
    /\ scaler["optimizer"].pc = "cycles_read"
    /\ scaler["optimizer"].added = 0
    /\ calls["optimizer"] = 1
    /\ enqueued = 2
    /\ TasksInQueue = 2
    /\ StopSignalsInQueue = 0
    /\ Len(worker_threads) = 1
    /\ BagCardinality(threads) = 1

(* C20.  A scale-up sets out to add exactly min(5, q) workers, q being the
   queue depth the evaluation read and found greater than 2w, whatever the
   workers dequeue between that read and scale_up. *)
C20_ScaleUpUsesObservedDepth ==
    [][\A c \in Callers :
          (scaler[c].pc = "up_qsize" /\ scaler'[c].pc # "up_qsize")
              => scaler'[c].n = Min(5, scaler[c].queue_size)]_vars


(* C21.  No torn state: in every state of the started pool, which any other
   thread may observe, the number of recorded handles, len(worker_threads),
   plus the number of StopSignals still in the queue equals the number of
   workers that have not stopped.  No handle is seen removed without its
   StopSignal enqueued, no worker is seen started without its handle. *)
C21_NoTornState ==
    main.pc = "running" => Len(worker_threads) + StopSignalsInQueue = LiveWorkers


(* C22.  The Monitor calls the Scaler exactly when the success rate is below
   90: at the step where analyze_performance decides (it returns, or it calls
   optimize_performance), it calls iff at least one task has been counted and
   100 * tasks_completed / (tasks_completed + tasks_failed) < 90 for the
   Metrics as they are. *)
C22_MonitorCallsIffBelowTarget ==
    [][(monitor.pc \in {"read_failed", "rate"} /\ monitor'.pc \notin {"read_failed", "rate"})
         => LET completed == performance_metrics.tasks_completed
                total == completed + performance_metrics.tasks_failed
            IN  (monitor'.pc = "optimizing") <=> (total > 0 /\ 100 * completed < 90 * total)]_vars


\* A step of the monitoring thread: of analyze_performance or of the
\* optimize_performance call it makes.
MonitorThreadStep == monitor' # monitor \/ scaler'["monitor"] # scaler["monitor"]

(* C23.  The Monitor is read-only on the task counters: no step of the
   monitoring thread changes tasks_completed or tasks_failed; every step it
   takes before it has called optimize_performance leaves the Metrics, the
   queue, the handle list and the workers as they are; and it makes that call
   only when the Metrics show at least one counted task and a success rate
   below 90, so a run at 90 percent or more, or with no data, changes none of
   them. *)
C23_MonitorReadOnly ==
    [][MonitorThreadStep =>
         /\ performance_metrics'.tasks_completed = performance_metrics.tasks_completed
         /\ performance_metrics'.tasks_failed = performance_metrics.tasks_failed
         /\ scaler["monitor"].pc = "idle" =>
               UNCHANGED <<performance_metrics, task_queue, worker_threads, threads>>
         /\ monitor'.pc = "optimizing" /\ monitor.pc # "optimizing" =>
               LET completed == performance_metrics.tasks_completed
                   total == completed + performance_metrics.tasks_failed
               IN  total > 0 /\ 100 * completed < 90 * total]_vars


(* C24.  No automatic retry: once a task has been run through execute_task,
   whether it completed or failed, no step puts it back into the queue and no
   step runs it again. *)
C24_NeverRequeued ==
    [][\A id \in 1..enqueued :
         executed[id] >= 1 =>
            /\ executed'[id] = executed[id]
            /\ CopiesInQueue(id)' = 0]_vars

\* Two tasks have failed and been counted, the third is still queued, and
\* the worker is back in get().
C24_Witness ==
    /\ performance_metrics.tasks_failed = 2
    /\ executed = <<1, 1, 0>>
    /\ TasksInQueue = 1
    /\ LiveWorkers = 1
    /\ RunningWorkers = 0


(* C25.  Drain: whenever every item put into the queue, Task or StopSignal,
   has been dequeued and no worker is still processing one, the queue's count
   of unfinished items is 0, so that a caller blocked in task_queue.join() is
   released. *)
C25_DrainReleasesWaiter ==
    (task_queue = <<>> /\ RunningWorkers = 0) => unfinished_tasks = 0


(* C26.  The handle list denotes the live workers: whenever the pool runs, no
   optimize_performance call is in progress and every StopSignal put so far
   has been consumed, the threads whose handles worker_threads holds are
   exactly the workers that have not stopped. *)
C26_HandlesAreLiveWorkers ==
    (main.pc = "running" /\ ScalersIdle /\ StopSignalsInQueue = 0) => Handles = LiveNames


\* start() has added its worker, and neither the monitoring thread nor the
\* optimization thread has begun an evaluation.
BeforeFirstEvaluation ==
    /\ main.pc \in {"start_monitoring", "start_optimization", "running"}
    /\ monitor.runs = 0
    /\ \A c \in Callers : calls[c] = 0

(* C27, as claimed.  From start()'s add_worker until the Monitor's and the
   Scaler's first evaluation the pool has exactly one worker and
   tasks_completed, tasks_failed and optimization_cycles are all 0. *)
C27_OneWorkerZeroMetricsAtStart ==
    BeforeFirstEvaluation =>
        /\ BagCardinality(threads) = 1
        /\ LiveWorkers = 1
        /\ Len(worker_threads) = 1
        /\ performance_metrics = [tasks_completed |-> 0, tasks_failed |-> 0,
                                  optimization_cycles |-> 0]

(* C27, amended.  From start()'s add_worker until the Monitor's and the
   Scaler's first evaluation the pool has exactly one worker, with its handle
   recorded, and optimization_cycles is 0; tasks_completed and tasks_failed
   are 0 for as long as the worker has executed no task, and never count more
   than the tasks it has executed. *)
C27_OneWorkerAtStart ==
    BeforeFirstEvaluation =>
        /\ BagCardinality(threads) = 1
        /\ LiveWorkers = 1
        /\ Len(worker_threads) = 1
        /\ performance_metrics.optimization_cycles = 0
        /\ performance_metrics.tasks_completed + performance_metrics.tasks_failed
              <= Cardinality({id \in 1..enqueued : executed[id] > 0})

\* start() has made all three calls, no evaluation has begun, and the one
\* worker has already counted a task.
C27_Witness ==
    /\ BeforeFirstEvaluation
    /\ main.pc = "running"
    /\ performance_metrics.tasks_completed = 1
    /\ LiveWorkers = 1


(* C28.  Under fair scheduling every task enqueued while the pool runs is
   eventually run through execute_task, whatever the producers, the workers,
   the Scaler's two callers and the Monitor do in between. *)
C28_EveryTaskEventuallyExecuted ==
    \A id \in 1..LiveTasks :
        (enqueued >= id) ~> (Len(executed) >= id /\ executed[id] >= 1)

\* No worker is left and a task waits in the queue.
C28_Witness ==
    /\ LiveWorkers = 0
    /\ TasksInQueue >= 1
    /\ StopSignalsInQueue = 0


(* C29.  The Scaler scales on pending work only: while the queue holds no
   Task (it is empty, or holds only StopSignals not yet consumed) no step adds
   a worker, so the evaluation that follows a scale-down does not undo it. *)
C29_NoTaskNoNewWorker ==
    [][TasksInQueue = 0 => LiveWorkers' <= LiveWorkers]_vars


\* The launcher's team_config: 'min_workers': 1, 'max_workers': 10.
min_workers == 1
max_workers == 10

(* C30.  The number of workers of the started pool stays within the bounds
   the launcher configures: at least min_workers and at most max_workers
   worker threads are live, and at most max_workers handles are recorded. *)
C30_WorkersWithinConfiguredBounds ==
    main.pc = "running" =>
        /\ LiveWorkers >= min_workers
        /\ LiveWorkers <= max_workers
        /\ Len(worker_threads) <= max_workers

(* C31.  Every call of push_changes raises exactly one of successful_pushes
   and failed_pushes by one, and a call that failed at a git step has raised
   after counting the failure. *)
C31_EveryPushCountedOnce ==
    LET last == github_manager.last
        pushed == github_metrics.successful_pushes - last.before.successful_pushes
        failed == github_metrics.failed_pushes - last.before.failed_pushes
    IN  last.outcome # "none" =>
          /\ <<pushed, failed>> \in {<<1, 0>>, <<0, 1>>}
          /\ last.failed_at \in GitSteps => last.outcome = "raised" /\ failed = 1

(* C32.  AutonomousDevTeam: once the orchestrator exists, every agent (the
   orchestrator, each project's PM and each of its developers) is recorded
   with a tmux window identifier of its own, and that identifier is the index
   of the window created for the agent. *)
DevTeamIdentifiers ==
    {0} \cup {dev_team.projects[p].pm_window : p \in DOMAIN dev_team.projects}
        \cup {dev_team.projects[p].dev_windows[r] :
                 p \in DOMAIN dev_team.projects, r \in {Lower(DevRoles[i]) : i \in 1..Len(DevRoles)}}

C32_DevTeamWindowsDistinct ==
    dev_team.pc # "new" =>
      /\ Cardinality(DevTeamIdentifiers)
            = 1 + Cardinality(DOMAIN dev_team.projects) * (1 + Len(DevRoles))
      /\ dev_team.windows[0 + 1] = OrchestratorWindow
      /\ \A p \in DOMAIN dev_team.projects :
            LET project == dev_team.projects[p]
            IN  /\ project.pm_window + 1 \in DOMAIN dev_team.windows
                /\ dev_team.windows[project.pm_window + 1] = WindowName("PM", p)
                /\ \A i \in 1..Len(DevRoles) :
                      LET n == project.dev_windows[Lower(DevRoles[i])]
                      IN  /\ n + 1 \in DOMAIN dev_team.windows
                          /\ dev_team.windows[n + 1] = WindowName(DevRoles[i], p)

(* C33.  The launcher's team: after create_orchestrator and any sequence of
   setup_single_project calls (each has returned: a call that raises ends the
   launcher), the recorded PM and developer window identifiers are pairwise
   distinct, none is the orchestrator's window 0, each is the index of the
   window created for its agent, and active_windows is the number of windows
   created. *)
LauncherAgents ==
    {<<p, "PM">> : p \in DOMAIN launcher.projects}
    \cup UNION {{<<p, r>> : r \in DOMAIN launcher.projects[p].dev_windows} :
                   p \in DOMAIN launcher.projects}

LauncherIdentifier(agent) ==
    IF agent[2] = "PM"
    THEN launcher.projects[agent[1]].pm_window
    ELSE launcher.projects[agent[1]].dev_windows[agent[2]]

C33_LauncherWindowsDistinct ==
    launcher.pc = "ready" =>
      /\ \A a, b \in LauncherAgents :
            a # b => LauncherIdentifier(a) # LauncherIdentifier(b)
      /\ \A a \in LauncherAgents :
            /\ LauncherIdentifier(a) # 0
            /\ LauncherIdentifier(a) + 1 \in DOMAIN launcher.windows
            /\ launcher.windows[LauncherIdentifier(a) + 1]
                  = WindowName(IF a[2] = "PM" THEN "PM" ELSE Title(a[2]), a[1])
      /\ launcher.windows[0 + 1] = OrchestratorWindow
      /\ launcher.active_windows = Len(launcher.windows)

C33_Witness ==
    /\ launcher.pc = "ready"
    /\ Cardinality(DOMAIN launcher.projects) = 2
    /\ Cardinality(LauncherAgents) >= 5

(* C34.  _should_alert suppresses repeats: for one (alert type, identifier)
   any two calls that returned True are at least 30 minutes apart, the first
   call for a key returns True, and a call that returns False leaves
   alert_cooldown as it was. *)
C34_AlertsSuppressedByCooldown ==
    /\ [](\A i, j \in 1..Len(team_monitor.alerts) :
            /\ i < j
            /\ team_monitor.alerts[i].alert_type = team_monitor.alerts[j].alert_type
            /\ team_monitor.alerts[i].identifier = team_monitor.alerts[j].identifier
            => team_monitor.alerts[j].at - team_monitor.alerts[i].at >= CooldownMinutes)
    /\ [](team_monitor.last.first => team_monitor.last.result)
    /\ [][team_monitor'.calls = team_monitor.calls + 1 /\ ~team_monitor'.last.result
            => team_monitor'.alert_cooldown = team_monitor.alert_cooldown]_vars

\* A key has alerted, a later call for it was suppressed, and it has alerted again.
C34_Witness ==
    /\ Len(team_monitor.alerts) = 2
    /\ team_monitor.alerts[1].alert_type = team_monitor.alerts[2].alert_type
    /\ team_monitor.alerts[1].identifier = team_monitor.alerts[2].identifier
    /\ team_monitor.calls = 3
    /\ team_monitor.last.result

=============================================================================
